---- MODULE Spec2Model ----
(***************************************************************************)
(* Xenakis sieves (xenakis_py/sieve.py) and the stochastic cloud           *)
(* (xenakis_py/stochastic.py) as state machines.                           *)
(*                                                                         *)
(* Python values that may be None are written as sequences of length at    *)
(* most one: None is <<>>, the value v is <<v>>.                           *)
(***************************************************************************)
EXTENDS Integers, Sequences, FiniteSets, TLC

None == <<>>

Some(v) == <<v>>

\* ---------------------------------------------------------------- bounds

\* Longest clause list handed to Sieve(...).
MaxClauses == 2

\* Largest end of a generate window; windows are taken in -1..WinHi.
WinHi == 5

\* Largest pitch offered to a cloud as an allowed pitch.
PitchHi == 4

\* Latest time a run is followed to.
MaxTime == 3

\* Most candidates followed in one next_time call.
MaxCand == 2

\* Most events followed in one run.
MaxDelivered == 2

\* Longest sequence asked of generate_sequence.
MaxSeq == 3

\* Longest weight list handed to draw_categorical.
MaxWeights == 3

\* Numbers are fixed-point: the real number v is written v * Scale, so that
\* 0.01 and the halves are exact.
Scale == 100

\* ------------------------------------------------------------ sieve state

VARIABLES
    raw,            \* the clause list handed to Sieve.__init__
    clauses,        \* self.clauses
    shift_amount,   \* self.shift_amount
    error,          \* "" or the exception __init__ raised
    call,           \* the last method called on the sieve
    args,           \* its arguments
    ret,            \* what it returned
    accs,           \* result_set after each clause of the last generate
    prev_shift      \* self.shift_amount as the call found it, when the
                    \* last call is shift; None otherwise

sieveVars ==
    <<raw, clauses, shift_amount, error, call, args, ret, accs, prev_shift>>

\* ------------------------------------------------------------ cloud state

VARIABLES
    allowed_pitches,  \* self.allowed_pitches: None or a sorted list
    pitch_quantise,   \* self.pitch_quantise
    pitch_span,       \* self.pitch_span
    fields,           \* the four ProbFields, by attribute name
    event,            \* the CloudEvent the last draw_event returned, or None
    cloud_error,      \* "" or the exception the last draw_event raised
    p_drawn,          \* what pitch_field.draw returned in the last draw_event
    t_now             \* the argument of the last draw_event, or None

cloudVars ==
    <<allowed_pitches, pitch_quantise, pitch_span, fields, event, cloud_error,
      p_drawn, t_now>>

\* ------------------------------------------------- a ProbField on its own

VARIABLES
    prob_field,       \* the ProbField, or None
    pf_out            \* the last draw: its argument, what the streams gave,
                      \* _last_val and _last_t as it found them,
                      \* whether the value was held, what it returned

fieldVars == <<prob_field, pf_out>>

\* ------------------------------------------ PoissonScheduler and the run

VARIABLES
    density_fn,       \* scheduler.density_fn, as the list of its values at
                      \* the times 0, 1, 2, ...
    max_rate,         \* scheduler.max_rate
    t_start,          \* run's arguments, None when not given
    t_end,
    max_events,
    pc,               \* where run is: "idle", "top", "next_time", "draw",
                      \* "returned", "raised"
    run_t,            \* run's t, and next_time's inside a call
    run_n,            \* run's n
    t_in,             \* the argument of the current or last next_time call
    cand,             \* the last candidate of next_time, or None
    ncand,            \* candidates drawn in the current or last next_time call
    sink,             \* the events handed to sink.handle, in order
    slept,            \* the delays handed to sleeper, in order
    steps             \* the calls of the loop turn in progress or last made,
                      \* in order, each with its argument or result

runVars ==
    <<density_fn, max_rate, t_start, t_end, max_events, pc, run_t, run_n, t_in,
      cand,
      ncand, sink, slept, steps>>

\* --------------------------------------------- MarkovChain and the screens

VARIABLES
    transition_matrix,  \* self.transition_matrix: each entry as <<weight, row sum>>
    mk_call,            \* the last function called: "init", "next_state",
                        \* "generate_sequence", "get_screen_params",
                        \* "apply_perturbation"
    mk_args,            \* its arguments
    mk_ret              \* what it returned

markovVars == <<transition_matrix, mk_call, mk_args, mk_ret>>

\* ------------------------------------------------------- draw_categorical

VARIABLES
    cat_weights,      \* weights
    cat_values,       \* values
    cat_r,            \* r = rng.uniform(0.0, total), None before the call
    cat_ret           \* what draw_categorical returned, None before the call

catVars == <<cat_weights, cat_values, cat_r, cat_ret>>

vars == <<sieveVars, cloudVars, fieldVars, runVars, markovVars, catVars>>

\* ------------------------------------------------------ python built-ins

Min(S) == CHOOSE x \in S : \A y \in S : x <= y

Max(S) == CHOOSE x \in S : \A y \in S : x >= y

RECURSIVE sortedReverse(_)
\* A sort with the comparison the wrong way round.
sortedReverse(S) ==
    IF S = {} THEN <<>> ELSE <<Max(S)>> \o sortedReverse(S \ {Max(S)})

RECURSIVE sorted(_)
\* sorted(iterable of distinct ints): ascending list.
sorted(S) == IF S = {} THEN <<>> ELSE <<Min(S)>> \o sorted(S \ {Min(S)})

\* set(list)
set(s) == {s[i] : i \in DOMAIN s}

RECURSIVE gcd(_, _)
gcd(a, b) == IF b = 0 THEN a ELSE gcd(b, a % b)

RECURSIVE lcmProduct(_)
\* The product of the moduli, which is their lcm only when they are coprime.
lcmProduct(ms) ==
    IF ms = <<>> THEN 1 ELSE lcmProduct(SubSeq(ms, 1, Len(ms) - 1)) * ms[Len(ms)]

\* The largest modulus in place of the common multiple.
lcmLargest(ms) == IF ms = <<>> THEN 1 ELSE Max(set(ms))

RECURSIVE lcm(_)
\* math.lcm(*moduli); math.lcm() is 1.
lcm(ms) ==
    IF ms = <<>> THEN 1
    ELSE LET r == lcm(SubSeq(ms, 1, Len(ms) - 1))
             m == ms[Len(ms)]
         IN  (r * m) \div gcd(r, m)

\* -------------------------------------------------------- Sieve.__init__

\* clause.get('residues', [clause.get('residue')])
ResiduesOf(clause) ==
    IF clause.residues = None THEN <<clause.residue>> ELSE clause.residues[1]

\* The modulus test with the bound off by one (modulus < 1).
BadModulusLax(modulus) == modulus = None \/ modulus[1] < 1

\* not isinstance(modulus, int) or modulus < 2
BadModulus(modulus) == modulus = None \/ modulus[1] < 2

\* Normalisation that forgets the reduction modulo the modulus.
NormalizeNoMod(residues, modulus) ==
    sorted({r[1] : r \in {q \in set(residues) : q # None}})

\* sorted(set(r % modulus for r in residues if r is not None))
Normalize(residues, modulus) ==
    sorted({r[1] % modulus : r \in {q \in set(residues) : q # None}})

RECURSIVE InitClauses(_, _, _)
\* The constructor's loop from clause i on, acc being self.clauses so far:
\* the first bad clause raises and nothing is built.
InitClauses(cs, i, acc) ==
    IF i > Len(cs) THEN [error |-> "", clauses |-> acc]
    ELSE LET modulus == cs[i].modulus
             residues == ResiduesOf(cs[i])
         IN  IF BadModulus(modulus)
             THEN [error |-> "ValueError", clauses |-> <<>>]
             ELSE IF Normalize(residues, modulus[1]) = <<>>
             THEN [error |-> "ValueError", clauses |-> <<>>]
             ELSE InitClauses(cs, i + 1,
                     Append(acc, [op |-> cs[i].op,
                                  modulus |-> modulus[1],
                                  residues |-> Normalize(residues, modulus[1])]))

SieveNew(cs) == InitClauses(cs, 1, <<>>)

\* -------------------------------------------------------- Sieve.generate

\* The shift added to x instead of subtracted from it.
FilteredPlus(universe, clause, shift) ==
    {x \in universe :
        \E i \in DOMAIN clause.residues :
            clause.residues[i] = (x + shift) % clause.modulus}

\* {x for x in universe if ((x - shift) % modulus) in residues}
Filtered(universe, clause, shift) ==
    {x \in universe :
        \E i \in DOMAIN clause.residues :
            clause.residues[i] = (x - shift) % clause.modulus}

\* The fold started from the plain empty set: nothing seeds the accumulator.
ApplyClausePlain(op, result_set, filtered, universe) ==
    CASE op = "union" -> result_set \cup filtered
      [] op = "intersection" -> result_set \cap filtered
      [] op = "complement" -> result_set \ filtered
      [] OTHER -> result_set

\* One pass of the if/elif chain; an operation it does not name leaves
\* result_set alone.  "not result_set" is true of the empty set.
ApplyClause(op, result_set, filtered, universe) ==
    CASE op = "union" -> result_set \cup filtered
      [] op = "intersection" ->
            IF result_set = {} THEN filtered ELSE result_set \cap filtered
      [] op = "complement" ->
            IF result_set = {} THEN universe \ filtered
            ELSE result_set \ filtered
      [] OTHER -> result_set

RECURSIVE ResultSets(_, _, _, _, _)
\* The loop over self.clauses from clause k on: the values result_set takes,
\* one per clause, after tr (those of the clauses before k).
ResultSets(cs, k, universe, shift, tr) ==
    IF k > Len(cs) THEN tr
    ELSE LET result_set == IF k = 1 THEN {} ELSE tr[k - 1]
             filtered == Filtered(universe, cs[k], shift)
         IN  ResultSets(cs, k + 1, universe, shift,
                 Append(tr, ApplyClause(cs[k].op, result_set, filtered, universe)))

\* set(range(start, end + 1))
Universe(start, end) == start .. end

\* result_set after every clause of generate(start, end).
Trace(cs, shift, start, end) ==
    ResultSets(cs, 1, Universe(start, end), shift, <<>>)

\* result_set when the loop is over.
Final(tr) == IF tr = <<>> THEN {} ELSE tr[Len(tr)]

\* return sorted(result_set)
GenerateList(cs, shift, start, end) == sorted(Final(Trace(cs, shift, start, end)))

\* ---------------------------------------------------------- Sieve.period

PeriodOf(cs) == lcm([i \in DOMAIN cs |-> cs[i].modulus])

\* ----------------------------------------------------------- the inputs

Ops == {"union", "intersection", "complement"}

\* Residue lists as written by a caller: canonical, negative, beyond the
\* modulus, repeated.
GoodResidues == {<<Some(1)>>, <<Some(0), Some(-1), Some(3), Some(0)>>}

GoodClauses ==
    [op : Ops, modulus : {Some(2), Some(3)},
     residues : {Some(r) : r \in GoodResidues}, residue : {None}]

\* Clauses the constructor refuses, and the legacy single-residue key.
OddClauses ==
    [op : {"union"}, modulus : {None, Some(1)},
     residues : {Some(<<Some(0)>>)}, residue : {None}]
    \cup [op : {"union"}, modulus : {Some(2)},
          residues : {Some(<<>>), Some(<<None>>), None}, residue : {None}]
    \cup [op : {"union"}, modulus : {Some(3)},
          residues : {None}, residue : {Some(5)}]

RawClauses == GoodClauses \cup OddClauses

RECURSIVE SeqsUpTo(_, _)
SeqsUpTo(S, n) ==
    IF n = 0 THEN {<<>>}
    ELSE LET T == SeqsUpTo(S, n - 1)
         IN  T \cup {Append(t, x) : t \in {u \in T : Len(u) = n - 1}, x \in S}

ShiftAmounts == {-1, 0, 2}

WinStarts == {-1, 1}

WinEnds == -1 .. WinHi

\* ------------------------------------------------------- stochastic.py

\* clamp(x, lo, hi)
clamp(x, lo, hi) == IF x < lo THEN lo ELSE IF x > hi THEN hi ELSE x

\* round(v) of the float v, written v * Scale: to the nearest integer, a
\* half to the even neighbour.
round(v) ==
    LET q == v \div Scale
        r == v % Scale
    IN  IF 2 * r < Scale THEN q
        ELSE IF 2 * r > Scale THEN q + 1
        ELSE IF q % 2 = 0 THEN q ELSE q + 1

abs(x) == IF x < 0 THEN -x ELSE x

\* The floor forgotten: the second argument passes through.
maxSecond(a, b) == b

max(a, b) == IF b > a THEN b ELSE a

\* ProbField.__init__: fn is written as the set of values it may return.
ProbField(fn, hold, jitter, hard_clip) ==
    [fn |-> fn, hold |-> hold, jitter |-> jitter, clip |-> hard_clip,
     last_val |-> None, last_t |-> -1000000000]

\* The hold test with the window closed at its end: now - last_t <= hold.
HeldThroughEnd(f, now) ==
    f.hold # None /\ (now - f.last_t) <= f.hold[1] /\ f.last_val # None

\* The sample-and-hold test of ProbField.draw.
Held(f, now) ==
    f.hold # None /\ (now - f.last_t) < f.hold[1] /\ f.last_val # None

\* The draw that keeps the jittered value as the held one.
FieldDrawKeepsJitter(f, now, sample, u) ==
    LET base == IF Held(f, now) THEN f.last_val[1] ELSE sample
        jittered == IF f.jitter # 0 THEN base + u ELSE base
    IN  [val |-> IF f.clip # None
                 THEN clamp(jittered, f.clip[1][1], f.clip[1][2])
                 ELSE jittered,
         field |-> IF Held(f, now) THEN f
                   ELSE [f EXCEPT !.last_val = Some(jittered), !.last_t = now]]

\* The draw with the clip applied before the jitter is added.
FieldDrawClipFirst(f, now, sample, u) ==
    LET base == IF Held(f, now) THEN f.last_val[1] ELSE sample
        clipped == IF f.clip # None
                   THEN clamp(base, f.clip[1][1], f.clip[1][2])
                   ELSE base
    IN  [val |-> IF f.jitter # 0 THEN clipped + u ELSE clipped,
         field |-> IF Held(f, now) THEN f
                   ELSE [f EXCEPT !.last_val = Some(sample), !.last_t = now]]

\* ProbField.draw(now), fn returning sample and the jitter stream u: the
\* value returned and the field afterwards.
FieldDraw(f, now, sample, u) ==
    LET base == IF Held(f, now) THEN f.last_val[1] ELSE sample
        jittered == IF f.jitter # 0 THEN base + u ELSE base
    IN  [val |-> IF f.clip # None
                 THEN clamp(jittered, f.clip[1][1], f.clip[1][2])
                 ELSE jittered,
         field |-> IF Held(f, now) THEN f
                   ELSE [f EXCEPT !.last_val = Some(sample), !.last_t = now]]

\* rng.uniform(-jitter, +jitter), at its ends and its middle.
JitterDraws(f) == IF f.jitter # 0 THEN {-f.jitter, 0, f.jitter} ELSE {0}

\* The comparison of the two candidates with the tie given to the upper one.
NearerTieUp(a, b, pi) == IF abs(a - pi) < abs(b - pi) THEN a ELSE b

\* return a if abs(a - pi) <= abs(b - pi) else b
Nearer(a, b, pi) == IF abs(a - pi) <= abs(b - pi) THEN a ELSE b

RECURSIVE Bisect(_, _, _, _)
\* The insertion-point loop; lo and hi are Python's 0-based indices.
Bisect(ap, pi, lo, hi) ==
    IF lo < hi
    THEN LET mid == (lo + hi) \div 2
         IN  IF ap[mid + 1] < pi THEN Bisect(ap, pi, mid + 1, hi)
             ELSE Bisect(ap, pi, lo, mid)
    ELSE lo

RECURSIVE BisectClosed(_, _, _, _)
\* The search loop over the closed range lo..hi (0-based).
BisectClosed(ap, pi, lo, hi) ==
    IF lo <= hi
    THEN LET mid == (lo + hi) \div 2
         IN  IF ap[mid + 1] < pi THEN BisectClosed(ap, pi, mid + 1, hi)
             ELSE BisectClosed(ap, pi, lo, mid - 1)
    ELSE lo

\* The quantiser that returns the position of the nearest allowed pitch in
\* the list instead of the pitch.
QuantiseIndex(p, ap, quantise, span) ==
    LET pi == clamp(round(p), span[1], span[2])
    IN  IF ap = None \/ ~quantise THEN [error |-> "", pitch |-> pi]
        ELSE IF ap[1] = <<>> THEN [error |-> "IndexError", pitch |-> pi]
        ELSE LET l == ap[1]
                 n == Len(l)
                 lo == BisectClosed(l, pi, 0, n - 1)
                 i == max(0, lo - 1)
                 j == IF lo < n - 1 THEN lo ELSE n - 1
             IN  IF pi <= l[1] THEN [error |-> "", pitch |-> l[1]]
                 ELSE IF pi >= l[n] THEN [error |-> "", pitch |-> l[n]]
                 ELSE [error |-> "",
                       pitch |-> IF abs(l[i + 1] - pi) <= abs(l[j + 1] - pi)
                                 THEN i ELSE j]

\* StochasticCloud._quantise_pitch (the second definition, which replaces
\* the first): the pitch returned, or the IndexError of ap[0] on an empty
\* list.
Quantise(p, ap, quantise, span) ==
    LET pi == clamp(round(p), span[1], span[2])
    IN  IF ap = None \/ ~quantise THEN [error |-> "", pitch |-> pi]
        ELSE IF ap[1] = <<>> THEN [error |-> "IndexError", pitch |-> pi]
        ELSE LET l == ap[1]
                 n == Len(l)
                 lo == Bisect(l, pi, 0, n)
             IN  IF pi <= l[1] THEN [error |-> "", pitch |-> l[1]]
                 ELSE IF pi >= l[n] THEN [error |-> "", pitch |-> l[n]]
                 ELSE [error |-> "",
                       pitch |-> Nearer(l[lo], IF lo < n THEN l[lo + 1] ELSE l[n], pi)]

\* self.allowed_pitches = sorted(set(allowed_pitches)) if ... is not None
AllowedOf(allowed) == IF allowed = None THEN None ELSE Some(sorted(set(allowed[1])))

\* --------------------------------------------------- the cloud's inputs

Pitches == 0 .. PitchHi

\* Lists a caller hands over as allowed_pitches: unsorted, with repeats.
AllowedInputs ==
    {None} \cup
    {Some(sortedReverse(S) \o sortedReverse(S)) : S \in SUBSET Pitches}

\* The default span and a narrow one.
PitchSpans == {<<0, 127>>, <<1, 3>>}

\* What the pitch distribution may return: the halves from -1 to PitchHi + 1.
PitchSamples == {k * (Scale \div 2) : k \in -2 .. (2 * PitchHi + 2)}

\* A plain pitch field, and one with sample-and-hold, jitter and clipping.
PitchFields ==
    {ProbField(PitchSamples, None, 0, None),
     ProbField({Scale \div 2, 3 * Scale}, Some(1), Scale \div 2,
               Some(<<0, 4 * Scale>>))}

\* Duration, velocity and channel distributions with a single value each:
\* below the range, inside it, above it.
OtherFields ==
    {[dur_field |-> ProbField({-5 * Scale}, None, 0, None),
      vel_field |-> ProbField({-3 * Scale}, None, 0, None),
      chan_field |-> ProbField({-1 * Scale}, None, 0, None)],
     [dur_field |-> ProbField({Scale \div 4}, None, 0, None),
      vel_field |-> ProbField({64 * Scale + Scale \div 2}, None, 0, None),
      chan_field |-> ProbField({9 * Scale + Scale \div 2}, None, 0, None)],
     [dur_field |-> ProbField({0}, None, 0, None),
      vel_field |-> ProbField({300 * Scale}, None, 0, None),
      chan_field |-> ProbField({16 * Scale}, None, 0, None)]}

Times == {0, 1}

\* ------------------------------------------------------------ the cloud

\* No cloud has been built.
NoCloud ==
    /\ allowed_pitches = None
    /\ pitch_quantise = TRUE
    /\ pitch_span = <<0, 127>>
    /\ fields = <<>>
    /\ event = None
    /\ cloud_error = ""
    /\ p_drawn = None
    /\ t_now = None

\* No ProbField stands on its own.
NoField ==
    /\ prob_field = None
    /\ pf_out = None

\* No scheduler has been built and run has not been called.
NoRun ==
    /\ density_fn = <<>>
    /\ max_rate = 1
    /\ t_start = None
    /\ t_end = None
    /\ max_events = None
    /\ pc = "idle"
    /\ run_t = 0
    /\ run_n = 0
    /\ t_in = 0
    /\ cand = None
    /\ ncand = 0
    /\ sink = <<>>
    /\ slept = <<>>
    /\ steps = <<>>

\* No MarkovChain has been built.
NoMarkov ==
    /\ transition_matrix = <<>>
    /\ mk_call = "init"
    /\ mk_args = <<>>
    /\ mk_ret = <<>>

\* draw_categorical is not called.
NoCategorical ==
    /\ cat_weights = <<>>
    /\ cat_values = <<>>
    /\ cat_r = None
    /\ cat_ret = None

\* No sieve has been built.
NoSieve ==
    /\ raw = <<>>
    /\ clauses = <<>>
    /\ shift_amount = 0
    /\ error = ""
    /\ call = "init"
    /\ args = <<>>
    /\ ret = <<>>
    /\ accs = <<>>
    /\ prev_shift = None

\* StochasticCloud.__init__
InitCloud ==
    /\ NoSieve
    /\ NoMarkov
    /\ NoCategorical
    /\ NoField
    /\ NoRun
    /\ \E allowed \in AllowedInputs : allowed_pitches = AllowedOf(allowed)
    /\ pitch_quantise \in BOOLEAN
    /\ pitch_span \in PitchSpans
    /\ \E pf \in PitchFields, of \in OtherFields :
          fields = [pitch_field |-> pf, dur_field |-> of.dur_field,
                    vel_field |-> of.vel_field, chan_field |-> of.chan_field]
    /\ event = None
    /\ cloud_error = ""
    /\ p_drawn = None
    /\ t_now = None

\* StochasticCloud.draw_event(now): the four fields are drawn in turn; an
\* exception out of _quantise_pitch leaves the later fields undrawn.
draw_event(now) ==
    \E ps \in fields.pitch_field.fn, pu \in JitterDraws(fields.pitch_field) :
    \E p \in {FieldDraw(fields.pitch_field, now, ps, pu)} :
    \E q \in {Quantise(p.val, allowed_pitches, pitch_quantise, pitch_span)} :
        /\ t_now' = Some(now)
        /\ p_drawn' = Some(p.val)
        /\ cloud_error' = q.error
        /\ IF q.error # ""
           THEN /\ fields' = [fields EXCEPT !.pitch_field = p.field]
                /\ event' = None
           ELSE \E ds \in fields.dur_field.fn, du \in JitterDraws(fields.dur_field),
                   vs \in fields.vel_field.fn, vu \in JitterDraws(fields.vel_field),
                   cs \in fields.chan_field.fn, cu \in JitterDraws(fields.chan_field) :
                \E d \in {FieldDraw(fields.dur_field, now, ds, du)},
                   v \in {FieldDraw(fields.vel_field, now, vs, vu)},
                   c \in {FieldDraw(fields.chan_field, now, cs, cu)} :
                    /\ fields' = [pitch_field |-> p.field, dur_field |-> d.field,
                                  vel_field |-> v.field, chan_field |-> c.field]
                    /\ event' = Some([t0 |-> now,
                                      pitch |-> q.pitch,
                                      dur_s |-> max(1, d.val),
                                      vel |-> clamp(round(v.val), 1, 127),
                                      channel |-> clamp(round(c.val), 0, 15)])
        /\ UNCHANGED <<allowed_pitches, pitch_quantise, pitch_span>>

\* draw_event called by a caller of the cloud.
DrawEvent(now) ==
    /\ draw_event(now)
    /\ UNCHANGED <<sieveVars, fieldVars, runVars,
                   markovVars, catVars>>

NextCloud == \E now \in Times : DrawEvent(now)

SpecCloud == InitCloud /\ [][NextCloud]_vars

\* ---------------------------------------------------------- the machine

Init ==
    /\ raw \in SeqsUpTo(RawClauses, MaxClauses)
    /\ clauses = SieveNew(raw).clauses
    /\ error = SieveNew(raw).error
    /\ shift_amount = 0
    /\ call = "init"
    /\ args = <<>>
    /\ ret = <<>>
    /\ accs = <<>>
    /\ prev_shift = None
    /\ NoCloud
    /\ NoField
    /\ NoRun
    /\ NoMarkov
    /\ NoCategorical

Generate(start, end) ==
    /\ error = ""
    /\ call' = "generate"
    /\ args' = <<start, end>>
    /\ accs' = Trace(clauses, shift_amount, start, end)
    /\ ret' = sorted(Final(accs'))
    /\ prev_shift' = None
    /\ UNCHANGED <<raw, clauses, shift_amount, error, cloudVars, fieldVars, runVars,
                   markovVars, catVars>>

Period ==
    /\ error = ""
    /\ call' = "period"
    /\ args' = <<>>
    /\ ret' = <<PeriodOf(clauses)>>
    /\ accs' = <<>>
    /\ prev_shift' = None
    /\ UNCHANGED <<raw, clauses, shift_amount, error, cloudVars, fieldVars, runVars,
                   markovVars, catVars>>

\* shift adding its argument to the offset it finds.
ShiftAdd(amount) ==
    /\ error = ""
    /\ shift_amount' = shift_amount + amount
    /\ prev_shift' = Some(shift_amount)
    /\ call' = "shift"
    /\ args' = <<amount>>
    /\ ret' = <<>>
    /\ accs' = <<>>
    /\ UNCHANGED <<raw, clauses, error, cloudVars, fieldVars, runVars,
                   markovVars, catVars>>

Shift(amount) ==
    /\ error = ""
    /\ shift_amount' = amount
    /\ prev_shift' = Some(shift_amount)
    /\ call' = "shift"
    /\ args' = <<amount>>
    /\ ret' = <<>>
    /\ accs' = <<>>
    /\ UNCHANGED <<raw, clauses, error, cloudVars, fieldVars, runVars,
                   markovVars, catVars>>

Next ==
    \/ \E start \in WinStarts, end \in WinEnds : Generate(start, end)
    \/ Period
    \/ \E amount \in ShiftAmounts : Shift(amount)

Spec == Init /\ [][Next]_vars

\* ----------------------------------------------- a sieve feeding a cloud

\* What the composed cloud's pitch distribution may return: below the span,
\* a half inside it, above the window.
ComposePitchSamples == {-1 * Scale, Scale + Scale \div 2, (WinHi + 1) * Scale}

\* StochasticCloud(..., allowed_pitches=sieve.generate(start, end),
\* pitch_quantise=True): built from the list the last generate returned.
BuildCloud ==
    /\ call = "generate"
    /\ fields = <<>>
    /\ allowed_pitches' = AllowedOf(Some(ret))
    /\ pitch_quantise' = TRUE
    /\ pitch_span' \in PitchSpans
    /\ fields' = [pitch_field |-> ProbField(ComposePitchSamples, None, 0, None),
                  dur_field |-> ProbField({Scale \div 4}, None, 0, None),
                  vel_field |-> ProbField({64 * Scale}, None, 0, None),
                  chan_field |-> ProbField({0}, None, 0, None)]
    /\ event' = None
    /\ cloud_error' = ""
    /\ p_drawn' = None
    /\ t_now' = None
    /\ UNCHANGED <<sieveVars, fieldVars, runVars,
                   markovVars, catVars>>

\* draw_event on the cloud once it is built.
ComposedDraw(now) ==
    /\ fields # <<>>
    /\ DrawEvent(now)

\* The sieve is used until the cloud is built from one of its lists; from
\* then on the cloud draws.
NextCompose ==
    \/ fields = <<>> /\ Next
    \/ BuildCloud
    \/ \E now \in Times : ComposedDraw(now)

SpecCompose == Init /\ [][NextCompose]_vars

\* ------------------------------------------ PoissonScheduler and the run

\* The intensity functions, as the lists of their values at 0 .. MaxTime,
\* each with its max_rate: at the bound throughout, rising and falling within
\* it, zero throughout, above it throughout.
Schedulers ==
    {[density_fn |-> [i \in 1 .. MaxTime + 1 |-> 2], max_rate |-> 2],
     [density_fn |-> [i \in 1 .. MaxTime + 1 |-> (i - 1) % 3], max_rate |-> 2],
     [density_fn |-> [i \in 1 .. MaxTime + 1 |-> 0], max_rate |-> 1],
     [density_fn |-> [i \in 1 .. MaxTime + 1 |-> 3], max_rate |-> 2]}

\* self.density_fn(t)
Density(t) == density_fn[t + 1]

\* rng.expovariate(max_rate) as t + w sees it: the gap is never negative,
\* and t + w is t when the gap is 0.0 or is absorbed by the rounding of the
\* sum.
Gaps == {0, 1, 2}

\* rng.random(), in [0, 1), written times Scale.
Uniforms == {0, Scale \div 2, Scale - 1}

\* What time_provider() may read.
Clocks == {0, 2}

\* t_start, t_end and max_events as a caller gives them.
Starts == {None, Some(0), Some(2)}

Ends == {None, Some(0), Some(2), Some(MaxTime)}

Counts == {None, Some(0), Some(1), Some(MaxDelivered)}

\* The test of the candidate at t + w with the intensity read at t, the
\* time before the gap.
AcceptsBeforeGap(u, t, w) == u * max_rate <= Density(t) * Scale

\* if u <= (self.density_fn(t) / self.max_rate), t having become t + w
Accepts(u, t, w) == u * max_rate <= Density(t + w) * Scale

\* PoissonScheduler.__init__ and StochasticCloud.__init__ for a run: a cloud
\* that does not quantise, one with an allowed list, one whose allowed
\* list is empty.
InitRun ==
    /\ NoSieve
    /\ NoMarkov
    /\ NoCategorical
    /\ NoField
    /\ \E s \in Schedulers : density_fn = s.density_fn /\ max_rate = s.max_rate
    /\ max_rate > 0
    /\ t_start = None
    /\ t_end = None
    /\ max_events = None
    /\ pc = "idle"
    /\ run_t = 0
    /\ run_n = 0
    /\ t_in = 0
    /\ cand = None
    /\ ncand = 0
    /\ sink = <<>>
    /\ slept = <<>>
    /\ steps = <<>>
    /\ allowed_pitches \in {None, AllowedOf(Some(<<3, 1>>)), AllowedOf(Some(<<>>))}
    /\ pitch_quantise = TRUE
    /\ pitch_span = <<0, 127>>
    /\ fields = [pitch_field |-> ProbField({2 * Scale}, None, 0, None),
                 dur_field |-> ProbField({Scale \div 4}, None, 0, None),
                 vel_field |-> ProbField({64 * Scale}, None, 0, None),
                 chan_field |-> ProbField({0}, None, 0, None)]
    /\ event = None
    /\ cloud_error = ""
    /\ p_drawn = None
    /\ t_now = None

\* run(sink, t_start=ts, t_end=te, max_events=me) up to the loop:
\* t = time_provider() if t_start is None else t_start; n = 0
RunCall(ts, te, me, clock) ==
    /\ pc = "idle"
    /\ t_start' = ts
    /\ t_end' = te
    /\ max_events' = me
    /\ run_t' = IF ts = None THEN clock ELSE ts[1]
    /\ run_n' = 0
    /\ pc' = "top"
    /\ steps' = <<>>
    /\ UNCHANGED <<density_fn, max_rate, t_in, cand, ncand, sink, slept>>
    /\ UNCHANGED <<sieveVars, cloudVars, fieldVars,
                   markovVars, catVars>>

\* The top of the loop: the two breaks, or the call scheduler.next_time(t).
LoopTop ==
    /\ pc = "top"
    /\ IF t_end # None /\ run_t >= t_end[1]
       THEN pc' = "returned" /\ UNCHANGED <<t_in, ncand, steps>>
       ELSE IF max_events # None /\ run_n >= max_events[1]
       THEN pc' = "returned" /\ UNCHANGED <<t_in, ncand, steps>>
       ELSE pc' = "next_time" /\ t_in' = run_t /\ ncand' = 0 /\ steps' = <<>>
    /\ UNCHANGED <<density_fn, max_rate, t_start, t_end, max_events, run_t,
                   run_n, cand, sink, slept>>
    /\ UNCHANGED <<sieveVars, cloudVars, fieldVars,
                   markovVars, catVars>>

\* One turn of next_time's loop: the gap w, the uniform u, and the return
\* when the candidate is accepted.
Candidate(w, u) ==
    /\ pc = "next_time"
    /\ run_t + w <= MaxTime
    /\ ncand < MaxCand
    /\ run_t' = run_t + w
    /\ ncand' = ncand + 1
    /\ \E a \in {Accepts(u, run_t, w)} :
          /\ cand' = Some([before |-> run_t, w |-> w, u |-> u, accepted |-> a])
          /\ pc' = IF a THEN "draw" ELSE "next_time"
          /\ steps' = IF a THEN <<<<"next_time", run_t + w>>>> ELSE steps
    /\ UNCHANGED <<density_fn, max_rate, t_start, t_end, max_events, run_n,
                   t_in, sink, slept>>
    /\ UNCHANGED <<sieveVars, cloudVars, fieldVars,
                   markovVars, catVars>>

\* The rest of the loop body once next_time has returned t: the sleep until
\* t, draw_event(now=t), sink.handle(ev), n += 1. An exception out of
\* draw_event ends run before the sink is reached.
Deliver(clock) ==
    /\ pc = "draw"
    /\ run_n < MaxDelivered
    /\ slept' = IF run_t - clock > 0 THEN Append(slept, run_t - clock) ELSE slept
    /\ draw_event(run_t)
    /\ \E upto \in {steps \o <<<<"time_provider", clock>>>>
                          \o (IF run_t - clock > 0
                              THEN <<<<"sleeper", run_t - clock>>>> ELSE <<>>)
                          \o <<<<"draw_event", run_t>>>>} :
          IF cloud_error' = ""
          THEN /\ sink' = Append(sink, event'[1])
               /\ run_n' = run_n + 1
               /\ steps' = upto \o <<<<"sink.handle", event'[1].t0>>,
                                      <<"n += 1", run_n + 1>>>>
               /\ pc' = "top"
          ELSE /\ pc' = "raised"
               /\ steps' = upto
               /\ UNCHANGED <<sink, run_n>>
    /\ UNCHANGED <<density_fn, max_rate, t_start, t_end, max_events, run_t,
                   t_in, cand, ncand>>
    /\ UNCHANGED <<sieveVars, fieldVars,
                   markovVars, catVars>>

NextRun ==
    \/ \E ts \in Starts, te \in Ends, me \in Counts, clock \in Clocks :
          RunCall(ts, te, me, clock)
    \/ LoopTop
    \/ \E w \in Gaps, u \in Uniforms : Candidate(w, u)
    \/ \E clock \in Clocks : Deliver(clock)

SpecRun == InitRun /\ [][NextRun]_vars

\* ------------------------------------------------- a ProbField on its own

\* What the field's distribution may return: below, inside and above the
\* clip ranges.
FieldSamples == {-1 * Scale, Scale \div 2, 3 * Scale}

\* hold, jitter and hard_clip as a caller gives them; the clip ranges have
\* lo <= hi, one of them a single point.
FieldHolds == {None, Some(2)}

FieldJitters == {0, Scale, 5 * Scale}

FieldClips == {None, Some(<<0, 2 * Scale>>), Some(<<Scale, Scale>>)}

\* The times draw is called with, in any order.
FieldTimes == 0 .. MaxTime

\* ProbField.__init__
InitField ==
    /\ NoSieve
    /\ NoCloud
    /\ NoRun
    /\ NoMarkov
    /\ NoCategorical
    /\ \E hold \in FieldHolds, jitter \in FieldJitters, hard_clip \in FieldClips :
          prob_field = Some(ProbField(FieldSamples, hold, jitter, hard_clip))
    /\ pf_out = None

\* ProbField.draw(now)
Draw(now) ==
    /\ prob_field # None
    /\ \E sample \in prob_field[1].fn, u \in JitterDraws(prob_field[1]) :
       \E r \in {FieldDraw(prob_field[1], now, sample, u)} :
          /\ prob_field' = Some(r.field)
          /\ pf_out' = Some([now |-> now, sample |-> sample, u |-> u,
                             found_val |-> prob_field[1].last_val,
                             found_t |-> prob_field[1].last_t,
                             held |-> Held(prob_field[1], now), val |-> r.val])
    /\ UNCHANGED <<sieveVars, cloudVars, runVars,
                   markovVars, catVars>>

NextField == \E now \in FieldTimes : Draw(now)

SpecField == InitField /\ [][NextField]_vars

\* ------------------------------------------------------------ markov.py

\* class ScreenState(Enum): the members by name, with their values.
ScreenState ==
    [A |-> 0, B |-> 1, C |-> 2, D |-> 3, E |-> 4, F |-> 5, G |-> 6, H |-> 7]

ScreenNames == DOMAIN ScreenState

\* ScreenState(index): the member with that value.
ScreenStateOf(index) == CHOOSE name \in ScreenNames : ScreenState[name] = index

\* The default matrix of MarkovChain.__init__, in hundredths.
DefaultMatrix ==
    << <<10,  5, 10,  5, 10,  5, 20, 30>>,
       << 5, 10,  5, 10,  5, 10, 30, 25>>,
       <<10,  5, 10,  5, 10,  5, 30, 25>>,
       << 5, 10,  5, 10,  5, 10, 25, 30>>,
       <<10,  5, 10,  5, 10,  5, 30, 25>>,
       << 5, 10,  5, 10,  5, 10, 25, 30>>,
       <<20, 30, 30, 25, 30, 25, 10,  5>>,
       <<30, 25, 25, 30, 25, 30,  5, 10>> >>

\* A matrix a caller hands over: from each state to the next one, three
\* times as often as to the one four further.
RingMatrix ==
    [i \in 1 .. 8 |->
        [j \in 1 .. 8 |-> IF j - 1 = i % 8 THEN 3
                          ELSE IF j - 1 = (i + 3) % 8 THEN 1 ELSE 0]]

Matrices == {DefaultMatrix, RingMatrix}

RECURSIVE SumOf(_, _)
\* sum of the first k entries of a row
SumOf(row, k) == IF k = 0 THEN 0 ELSE SumOf(row, k - 1) + row[k]

\* matrix / matrix.sum(axis=1, keepdims=True): each entry over its row sum.
Normalise(matrix) ==
    [i \in DOMAIN matrix |->
        [j \in DOMAIN matrix[i] |-> <<matrix[i][j], SumOf(matrix[i], Len(matrix[i]))>>]]

\* next_state choosing among all eight states whatever the probabilities.
NextStatesAny(tm, current_state) == ScreenNames

\* next_state: what np.random.choice(range(8), p=probabilities) may give,
\* as ScreenState members.
NextStates(tm, current_state) ==
    {ScreenStateOf(j - 1) :
        j \in {k \in 1 .. 8 : tm[ScreenState[current_state] + 1][k][1] > 0}}

RECURSIVE Extended(_, _, _)
\* The loop of generate_sequence run k times on each sequence of seqs.
Extended(tm, seqs, k) ==
    IF k <= 0 THEN seqs
    ELSE Extended(tm,
                  UNION {{Append(q, nx) : nx \in NextStates(tm, q[Len(q)])} :
                            q \in seqs},
                  k - 1)

\* generate_sequence(start_state, length): the lists it may return.
GenerateSequences(tm, start_state, length) ==
    Extended(tm, {<<start_state>>}, length - 1)

\* The lengths asked for.
Lengths == -1 .. MaxSeq

\* The states sequences are started from: the one mkv_analogique_a starts
\* from, and the last.
SequenceStarts == {"B", "H"}

\* -------------------------------------------------------- mkv_screens.py

pitch_fields == [f0 |-> <<48, 72>>, f1 |-> <<60, 84>>]

intensity_fields == [g0 |-> <<40, 80>>, g1 |-> <<80, 120>>]

density_fields == [d0 |-> 5, d1 |-> 15]

\* 1.1 seconds
screen_duration == (11 * Scale) \div 10

\* The table with the density of G taken from d1.
screen_mappingsDenseG ==
    [name \in ScreenNames |->
        [pitch_range |-> IF name \in {"A", "B", "C", "D"}
                         THEN pitch_fields.f0 ELSE pitch_fields.f1,
         velocity_range |-> IF name \in {"A", "B", "E", "F"}
                            THEN intensity_fields.g0 ELSE intensity_fields.g1,
         density |-> IF name \in {"A", "C", "E"}
                     THEN density_fields.d0 ELSE density_fields.d1,
         duration |-> screen_duration]]

screen_mappings ==
    [A |-> [pitch_range |-> pitch_fields.f0,
            velocity_range |-> intensity_fields.g0,
            density |-> density_fields.d0,
            duration |-> screen_duration],
     B |-> [pitch_range |-> pitch_fields.f0,
            velocity_range |-> intensity_fields.g0,
            density |-> density_fields.d1,
            duration |-> screen_duration],
     C |-> [pitch_range |-> pitch_fields.f0,
            velocity_range |-> intensity_fields.g1,
            density |-> density_fields.d0,
            duration |-> screen_duration],
     D |-> [pitch_range |-> pitch_fields.f0,
            velocity_range |-> intensity_fields.g1,
            density |-> density_fields.d1,
            duration |-> screen_duration],
     E |-> [pitch_range |-> pitch_fields.f1,
            velocity_range |-> intensity_fields.g0,
            density |-> density_fields.d0,
            duration |-> screen_duration],
     F |-> [pitch_range |-> pitch_fields.f1,
            velocity_range |-> intensity_fields.g0,
            density |-> density_fields.d1,
            duration |-> screen_duration],
     G |-> [pitch_range |-> pitch_fields.f1,
            velocity_range |-> intensity_fields.g1,
            density |-> density_fields.d0,
            duration |-> screen_duration],
     H |-> [pitch_range |-> pitch_fields.f1,
            velocity_range |-> intensity_fields.g1,
            density |-> density_fields.d1,
            duration |-> screen_duration]]

\* ------------------------------------------------- the chain, as a machine

\* MarkovChain(transition_matrix)
InitMarkov ==
    /\ NoSieve
    /\ NoCloud
    /\ NoField
    /\ NoRun
    /\ NoCategorical
    /\ \E matrix \in Matrices : transition_matrix = Normalise(matrix)
    /\ mk_call = "init"
    /\ mk_args = <<>>
    /\ mk_ret = <<>>

UnchangedByMarkov == UNCHANGED <<sieveVars, cloudVars, fieldVars, runVars, catVars>>

\* next_state(current_state)
NextState(current_state) ==
    /\ mk_call' = "next_state"
    /\ mk_args' = <<current_state>>
    /\ \E nx \in NextStates(transition_matrix, current_state) : mk_ret' = <<nx>>
    /\ UNCHANGED transition_matrix
    /\ UnchangedByMarkov

\* generate_sequence(start_state, length)
GenerateSequence(start_state, length) ==
    /\ mk_call' = "generate_sequence"
    /\ mk_args' = <<start_state, length>>
    /\ \E sequence \in GenerateSequences(transition_matrix, start_state, length) :
          mk_ret' = <<sequence>>
    /\ UNCHANGED transition_matrix
    /\ UnchangedByMarkov

\* apply_perturbation(perturbation_matrix)
ApplyPerturbation(matrix) ==
    /\ mk_call' = "apply_perturbation"
    /\ mk_args' = <<matrix>>
    /\ mk_ret' = <<>>
    /\ transition_matrix' = Normalise(matrix)
    /\ UnchangedByMarkov

\* get_screen_params(state)
GetScreenParams(state) ==
    /\ mk_call' = "get_screen_params"
    /\ mk_args' = <<state>>
    /\ mk_ret' = <<screen_mappings[state]>>
    /\ UNCHANGED transition_matrix
    /\ UnchangedByMarkov

NextMarkov ==
    \/ \E current_state \in ScreenNames : NextState(current_state)
    \/ \E start_state \in SequenceStarts, length \in Lengths :
          GenerateSequence(start_state, length)
    \/ \E matrix \in Matrices : ApplyPerturbation(matrix)
    \/ \E state \in ScreenNames : GetScreenParams(state)

SpecMarkov == InitMarkov /\ [][NextMarkov]_vars

\* ------------------------------------------------------- draw_categorical

\* total = sum(weights)
Total(weights) == SumOf(weights, Len(weights))

RECURSIVE Scan(_, _, _, _, _)
\* The loop over zip(weights, values) from position k on, acc being the sum
\* of the weights before k; values[-1] when the loop runs out.
Scan(weights, values, r, k, acc) ==
    IF k > Len(weights) THEN values[Len(values)]
    ELSE IF r <= acc + weights[k] THEN values[k]
    ELSE Scan(weights, values, r, k + 1, acc + weights[k])

\* draw_categorical(weights, values, rng), r being what rng.uniform(0.0,
\* total) gave.
draw_categorical(weights, values, r) == Scan(weights, values, r, 1, 0)

\* The weights a caller gives: none, one, two.
WeightValues == {0, Scale, 2 * Scale}

\* The values drawn from, all different.
CategoricalValues == [i \in 1 .. MaxWeights |-> 10 * i]

\* rng.uniform(0.0, total): both ends and the halves between.
UniformsUpTo(total) == {k * (Scale \div 2) : k \in 0 .. (2 * total) \div Scale}

\* The arguments of a Categorical field: as many values as weights, at
\* least one.
InitCategorical ==
    /\ NoSieve
    /\ NoCloud
    /\ NoField
    /\ NoRun
    /\ NoMarkov
    /\ cat_weights \in SeqsUpTo(WeightValues, MaxWeights) \ {<<>>}
    /\ cat_values = SubSeq(CategoricalValues, 1, Len(cat_weights))
    /\ cat_r = None
    /\ cat_ret = None

\* draw_categorical(weights, values, rng)
DrawCategorical(r) ==
    /\ cat_r' = Some(r)
    /\ cat_ret' = Some(draw_categorical(cat_weights, cat_values, r))
    /\ UNCHANGED <<cat_weights, cat_values>>
    /\ UNCHANGED <<sieveVars, cloudVars, fieldVars, runVars, markovVars>>

NextCategorical == \E r \in UniformsUpTo(Total(cat_weights)) : DrawCategorical(r)

SpecCategorical == InitCategorical /\ [][NextCategorical]_vars

\* ------------------------------------------------------------ the claims

Start == args[1]

End == args[2]

IsGenerate == call = "generate"

\* x passes clause c under shift sh.
Passes(x, c, sh) == ((x - sh) % c.modulus) \in set(c.residues)

\* C1: generate(start, end) with start <= end returns a strictly increasing
\* list (hence without duplicates) whose elements all lie in [start, end].
C1_GenerateSortedInWindow ==
    (IsGenerate /\ Start <= End) =>
        /\ \A i \in DOMAIN ret : ret[i] \in Int /\ Start <= ret[i] /\ ret[i] <= End
        /\ \A i, j \in DOMAIN ret : i < j => ret[i] < ret[j]
        /\ Cardinality(set(ret)) = Len(ret)

C1_Witness == IsGenerate /\ Start <= End /\ Len(ret) >= 3 /\ Len(clauses) = 2

\* One or more intersection clauses followed by complement clauses only.
IsChain(cs) ==
    /\ Len(cs) >= 1
    /\ cs[1].op = "intersection"
    /\ \A i \in DOMAIN cs : cs[i].op \in {"intersection", "complement"}
    /\ \A i, j \in DOMAIN cs :
          (i < j /\ cs[i].op = "complement") => cs[j].op = "complement"

\* The boolean conjunction an intersection/complement chain denotes.
Conjunction(cs, sh, start, end) ==
    {x \in start .. end :
        \A i \in DOMAIN cs :
            IF cs[i].op = "intersection" THEN Passes(x, cs[i], sh)
            ELSE ~Passes(x, cs[i], sh)}

\* C2: for a chain of intersection clauses followed by complement clauses,
\* generate(start, end) is exactly the set of x in the window that pass every
\* intersection clause and no complement clause.
C2_ChainIsConjunction ==
    (IsGenerate /\ IsChain(clauses)) =>
        set(ret) = Conjunction(clauses, shift_amount, Start, End)

\* C3: the first clause seeds the accumulator: a first union or intersection
\* clause leaves exactly its filtered set, a first complement clause leaves
\* the window minus its filtered set.
C3_FirstClauseSeeds ==
    (IsGenerate /\ Len(clauses) >= 1) =>
        LET c == clauses[1]
            f == {x \in Start .. End : Passes(x, c, shift_amount)}
        IN  /\ c.op \in {"union", "intersection"} => accs[1] = f
            /\ c.op = "complement" => accs[1] = (Start .. End) \ f
            /\ (Len(clauses) = 1 /\ c.op = "complement") =>
                   ret = sorted({x \in Start .. End : ~Passes(x, c, shift_amount)})

C3_Witness ==
    /\ IsGenerate
    /\ Len(clauses) = 1
    /\ clauses[1].op = "complement"
    /\ Len(ret) >= 2
    /\ Len(ret) < End - Start + 1

\* n is the least positive integer every modulus of cs divides.
IsLeastCommonMultiple(n, cs) ==
    /\ n >= 1
    /\ \A i \in DOMAIN cs : n % cs[i].modulus = 0
    /\ \A k \in 1 .. (n - 1) : \E i \in DOMAIN cs : k % cs[i].modulus # 0

\* C4: period() is the least common multiple of the moduli of all clauses,
\* whatever their operations and residues and whatever the current shift.
C4_PeriodIsLcm ==
    call = "period" => IsLeastCommonMultiple(ret[1], clauses)

C4_Witness ==
    /\ call = "period"
    /\ shift_amount # 0
    /\ Len(clauses) = 2
    /\ clauses[1].modulus = clauses[2].modulus
    /\ clauses[1].op # clauses[2].op

\* C5: inside one generate call of an unshifted sieve, x and x + period()
\* that both lie in the window are both in the output or both out of it.
C5_PeriodicInWindow ==
    (IsGenerate /\ shift_amount = 0) =>
        LET P == PeriodOf(clauses)
        IN  \A x \in Start .. (End - P) :
                (x \in set(ret)) <=> ((x + P) \in set(ret))

C5_Witness ==
    /\ IsGenerate
    /\ shift_amount = 0
    /\ Len(clauses) = 2
    /\ clauses[1].op = "complement"
    /\ clauses[2].op = "union"
    /\ PeriodOf(clauses) = 6
    /\ \E x \in Start .. (End - 6) : x \in set(ret)
    /\ \E x \in Start .. End : x \notin set(ret)

\* C6: after shift(s), x is in generate(a, b) exactly when x - s is in the
\* unshifted sieve's generate(a - s, b - s); the values returned are the
\* tested x themselves and stay inside [a, b].
C6_ShiftTranslates ==
    IsGenerate =>
        LET s == shift_amount
            unshifted == set(GenerateList(clauses, 0, Start - s, End - s))
        IN  /\ \A x \in (Start - 3) .. (End + 3) :
                   (x \in set(ret)) <=> (x \in Start .. End /\ (x - s) \in unshifted)
            /\ \A i \in DOMAIN ret : Start <= ret[i] /\ ret[i] <= End

C6_Witness ==
    /\ IsGenerate
    /\ shift_amount = 2
    /\ ret # <<>>
    /\ ret # GenerateList(clauses, 0, Start, End)

\* The residue list a caller wrote for clause c, None entries dropped.
Written(c) == {r[1] : r \in {q \in set(ResiduesOf(c)) : q # None}}

\* Clause c written with the set {r mod modulus : r in R} as its residues.
Canonical(c) ==
    LET rs == sortedReverse({r % c.modulus[1] : r \in Written(c)})
    IN  [c EXCEPT !.residues = Some([i \in DOMAIN rs |-> Some(rs[i])]),
                  !.residue = None]

\* C7: every stored clause has sorted, pairwise distinct residues within
\* [0, modulus), and the sieve generates what the sieve written with the
\* canonical residue sets generates.
C7_ResiduesNormalised ==
    error = "" =>
        /\ \A k \in DOMAIN clauses :
              LET rs == clauses[k].residues
              IN  /\ \A i \in DOMAIN rs : 0 <= rs[i] /\ rs[i] < clauses[k].modulus
                  /\ \A i, j \in DOMAIN rs : i < j => rs[i] < rs[j]
        /\ IsGenerate =>
              ret = GenerateList(
                        SieveNew([k \in DOMAIN raw |-> Canonical(raw[k])]).clauses,
                        shift_amount, Start, End)

C7_Witness ==
    /\ error = ""
    /\ IsGenerate
    /\ ret # <<>>
    /\ \E k \in DOMAIN raw :
          /\ \E r \in Written(raw[k]) : r < 0
          /\ \E r \in Written(raw[k]) : r >= raw[k].modulus[1]
          /\ Cardinality(Written(raw[k])) < Len(ResiduesOf(raw[k]))

\* A clause the constructor must refuse.
Refused(c) ==
    \/ c.modulus = None
    \/ c.modulus[1] < 2
    \/ Written(c) = {}

\* C8: construction raises the invalid-clause error exactly when some clause
\* has a modulus that is not an integer >= 2 or no residue left once None
\* entries are dropped; then no sieve exists, and on a constructed sieve no
\* call raises it.
C8_InvalidClauseExactly ==
    /\ (error = "ValueError") <=> (\E k \in DOMAIN raw : Refused(raw[k]))
    /\ error \in {"", "ValueError"}
    /\ error = "ValueError" => (clauses = <<>> /\ call = "init")
    /\ call \in {"generate", "shift", "period"} => error = ""

C8_Witness ==
    /\ error = "ValueError"
    /\ Len(raw) = 2
    /\ ~Refused(raw[1])
    /\ raw[2].modulus = Some(2)

\* The cloud quantises against a non-empty allowed list and draw_event has
\* been called.
Quantising ==
    /\ pitch_quantise
    /\ allowed_pitches # None
    /\ allowed_pitches[1] # <<>>
    /\ p_drawn # None

Allowed == set(allowed_pitches[1])

\* The raw pitch sample rounded to an integer and clamped into pitch_span.
Pi == clamp(round(p_drawn[1]), pitch_span[1], pitch_span[2])

\* C9: with pitch_quantise true and a non-empty allowed_pitches, every
\* draw_event returns an event whose pitch is an element of allowed_pitches.
C9_PitchIsAllowed ==
    Quantising => (event # None /\ event[1].pitch \in Allowed)

C9_Witness ==
    /\ Quantising
    /\ event # None
    /\ Cardinality(Allowed) >= 2
    /\ pitch_span = <<1, 3>>
    /\ fields.pitch_field.jitter # 0
    /\ event[1].pitch # Pi

\* The allowed pitches at the least distance from pi.
Nearest == {a \in Allowed : \A b \in Allowed : abs(a - Pi) <= abs(b - Pi)}

\* C10: the pitch returned is the smallest allowed pitch among those at the
\* least distance from pi, so a tie between two allowed pitches goes to the
\* lower one.
C10_NearestLowerOnTie ==
    Quantising => (event # None /\ event[1].pitch = Min(Nearest))

C10_Witness ==
    /\ Quantising
    /\ event # None
    /\ Cardinality(Allowed) = 3
    /\ Cardinality(Nearest) = 2
    /\ event[1].pitch = Min(Nearest)
    /\ Min(Allowed) < Min(Nearest)

C10_WitnessSingle ==
    /\ Quantising
    /\ Cardinality(Allowed) = 1
    /\ event # None
    /\ event[1].pitch # Pi

\* draw_event has been called on a cloud that does not quantise: the flag is
\* off, or allowed_pitches is unset, or it is an empty sequence.
NotQuantising ==
    /\ p_drawn # None
    /\ (~pitch_quantise \/ allowed_pitches = None \/ allowed_pitches[1] = <<>>)

\* C11: when pitch_quantise is false, or allowed_pitches is unset or empty,
\* draw_event completes without error and its pitch is the raw sample
\* rounded and clamped into pitch_span.
C11_UnquantisedPassesThrough ==
    NotQuantising =>
        (cloud_error = "" /\ event # None /\ event[1].pitch = Pi)

\* C13: every event draw_event(now) returns has a duration of at least 0.01,
\* a velocity in 1..127, a channel in 0..15 and t0 = now.
C13_EventRanges ==
    event # None =>
        /\ 100 * event[1].dur_s >= Scale
        /\ 1 <= event[1].vel /\ event[1].vel <= 127
        /\ 0 <= event[1].channel /\ event[1].channel <= 15
        /\ t_now # None /\ event[1].t0 = t_now[1]

C13_Witness ==
    /\ event # None
    /\ fields.dur_field.last_val = Some(0)
    /\ 100 * event[1].dur_s = Scale
    /\ event[1].vel = 127
    /\ event[1].channel = 15
    /\ event[1].t0 = 1

C13_WitnessLow ==
    /\ event # None
    /\ fields.dur_field.last_val[1] < 0
    /\ event[1].vel = 1
    /\ event[1].channel = 0

\* C12: a cloud built with allowed_pitches = Sieve.generate(start, end) and
\* pitch_quantise = true completes every draw_event call and returns an
\* event, whatever list generate returned.
C12_ComposedDrawReturns ==
    (clauses # <<>> /\ call = "generate" /\ fields # <<>> /\ p_drawn # None) =>
        (cloud_error = "" /\ event # None)

\* run was given t_end or max_events.
Bounded == t_end # None \/ max_events # None

RunOver == pc \in {"returned", "raised"}

\* C14: next_time(t) returns a time strictly greater than t, every candidate
\* of a call lying after the call's argument, so the events that run hands
\* to the sink have strictly increasing times, each after t_start.
C14_NextTimeStrictlyLater ==
    /\ (pc \in {"next_time", "draw"} /\ ncand > 0) => run_t > t_in
    /\ \A i \in 1 .. Len(sink) :
          /\ t_start # None => sink[i].t0 > t_start[1]
          /\ i > 1 => sink[i].t0 > sink[i - 1].t0

\* C15: run hands the sink at most max_events events, exactly max_events
\* when it ends and t_end is absent; with max_events = 0 or t_start >= t_end
\* it returns having called neither the scheduler, the sleeper nor the sink.
C15_RunDeliversCount ==
    /\ max_events # None => Len(sink) <= max_events[1]
    /\ (RunOver /\ max_events # None /\ t_end = None) =>
          Len(sink) = max_events[1]
    /\ (RunOver /\ (max_events = Some(0)
                    \/ (t_start # None /\ t_end # None /\ t_start[1] >= t_end[1]))) =>
          (pc = "returned" /\ cand = None /\ slept = <<>> /\ sink = <<>>)

AtLeastMaxRate == \A t \in 0 .. MaxTime : Density(t) >= max_rate

\* C18: a candidate is accepted exactly when u <= intensity(t') / max_rate,
\* t' being the time after the gap; a candidate with intensity(t') >=
\* max_rate is accepted and nothing is raised by the scheduler; with the
\* intensity at least max_rate throughout, each call returns its first
\* candidate.
C18_ThinningAcceptance ==
    /\ cand # None =>
          LET c == cand[1]
              t2 == c.before + c.w
          IN  /\ c.accepted <=> (c.u * max_rate <= density_fn[t2 + 1] * Scale)
              /\ density_fn[t2 + 1] >= max_rate => c.accepted
    /\ (pc = "raised") => (cloud_error # "" /\ cand # None /\ cand[1].accepted)
    /\ (AtLeastMaxRate /\ pc # "idle") =>
          (ncand <= 1 /\ (cand # None => cand[1].accepted))

\* A second candidate accepted after a gap, which the intensity before the
\* gap would have rejected.
C18_Witness ==
    /\ cand # None
    /\ ncand = 2
    /\ cand[1].accepted
    /\ cand[1].w > 0
    /\ cand[1].u * max_rate > density_fn[cand[1].before + 1] * Scale

\* A first candidate accepted with the intensity above max_rate and the
\* largest uniform.
C18_WitnessOver ==
    /\ cand # None
    /\ ncand = 1
    /\ pc = "draw"
    /\ cand[1].u = Scale - 1
    /\ density_fn[run_t + 1] > max_rate

\* What generate and period() return whatever shift calls came before: what
\* a newly built sieve returns, shifted once by the current offset.
C19_State ==
    /\ IsGenerate =>
          ret = GenerateList(SieveNew(raw).clauses, shift_amount, Start, End)
    /\ call = "period" => ret = <<PeriodOf(SieveNew(raw).clauses)>>

\* What a call changes: a shift call leaves its argument as the offset,
\* whatever offset it found, and the clauses as they were; any other call
\* leaves offset and clauses as they were; a generate call repeated with
\* the same arguments returns the same list.
C19_Step ==
    /\ clauses' = clauses
    /\ IF call' = "shift" THEN shift_amount' = args'[1]
       ELSE shift_amount' = shift_amount
    /\ (IsGenerate /\ call' = "generate" /\ args' = args) => ret' = ret

\* C19: shift replaces the offset rather than adding to it, so the output
\* depends on the last shift call only (shift(0) restoring the unshifted
\* output); shift changes neither the clauses nor period(), generate changes
\* neither the clauses nor the offset, and a repeated generate returns the
\* same result.
C19_ShiftReplaces == []C19_State /\ [][C19_Step]_vars

\* shift(-1) called on a sieve that shift(2) had shifted: the offset is -1,
\* and generate would return something other than under the two added
\* together.
C19_Witness ==
    /\ call = "shift"
    /\ prev_shift = Some(2)
    /\ shift_amount = -1
    /\ GenerateList(clauses, -1, 0, WinHi) # GenerateList(clauses, 1, 0, WinHi)

\* The clip range of the field, when one is configured.
Lo == prob_field[1].clip[1][1]

Hi == prob_field[1].clip[1][2]

\* C20: with a clip range (lo, hi), lo <= hi, every value draw returns lies
\* in [lo, hi], on fresh and on held draws, whatever the jitter.
C20_DrawWithinClip ==
    (pf_out # None /\ prob_field[1].clip # None /\ Lo <= Hi) =>
        (Lo <= pf_out[1].val /\ pf_out[1].val <= Hi)

\* A held draw whose held value lies inside the range and whose jitter
\* carries it out of it.
C20_Witness ==
    /\ pf_out # None
    /\ prob_field[1].clip # None
    /\ pf_out[1].held
    /\ Lo <= prob_field[1].last_val[1] /\ prob_field[1].last_val[1] <= Hi
    /\ prob_field[1].last_val[1] + pf_out[1].u > Hi
    /\ pf_out[1].val = Hi

\* A fresh draw below the range with no jitter.
C20_WitnessFresh ==
    /\ pf_out # None
    /\ prob_field[1].clip # None
    /\ ~pf_out[1].held
    /\ prob_field[1].jitter = 0
    /\ pf_out[1].sample < Lo
    /\ pf_out[1].val = Lo

\* The three binary fields of the state whose value is v: bit 2 the pitch
\* field, bit 1 the intensity field, bit 0 the density field.
FieldsOfValue(v) ==
    [pitch_range |-> IF v \div 4 = 0 THEN <<48, 72>> ELSE <<60, 84>>,
     velocity_range |-> IF (v \div 2) % 2 = 0 THEN <<40, 80>> ELSE <<80, 120>>,
     density |-> IF v % 2 = 0 THEN 5 ELSE 15,
     duration |-> (11 * Scale) \div 10]

\* C21: get_screen_params maps A..H one-to-one onto the eight combinations
\* of the three binary fields, following the binary encoding of the state's
\* value, with duration 1.1 for every state.
C21_ScreensFollowBinaryEncoding ==
    mk_call = "get_screen_params" =>
        /\ mk_ret[1] = FieldsOfValue(ScreenState[mk_args[1]])
        /\ \A other \in ScreenNames \ {mk_args[1]} : screen_mappings[other] # mk_ret[1]

C21_Witness ==
    /\ mk_call = "get_screen_params"
    /\ mk_args = <<"G">>
    /\ mk_ret[1].density = 5
    /\ mk_ret[1].pitch_range = <<60, 84>>
    /\ mk_ret[1].velocity_range = <<80, 120>>

\* C22: generate_sequence(start_state, length) returns exactly `length`
\* states for every length >= 0, the first being start_state and each later
\* one a state next_state can return for its predecessor.
C22_SequenceHasLength ==
    (mk_call = "generate_sequence" /\ mk_args[2] >= 0) =>
        LET q == mk_ret[1]
        IN  /\ Len(q) = mk_args[2]
            /\ Len(q) >= 1 => q[1] = mk_args[1]
            /\ \A i \in 2 .. Len(q) :
                  /\ q[i] \in ScreenNames
                  /\ transition_matrix[ScreenState[q[i - 1]] + 1][ScreenState[q[i]] + 1][1] > 0

\* C23: in generate, every clause after the first folds its filtered set
\* into whatever the accumulator holds, the empty set included: union gives
\* result | filtered, intersection result & filtered, complement result -
\* filtered; an intersection or complement clause after the first adds no
\* element.
C23_LaterClausesFold ==
    IsGenerate =>
        \A i \in 2 .. Len(clauses) :
            LET c == clauses[i]
                f == {x \in Start .. End : Passes(x, c, shift_amount)}
                before == accs[i - 1]
            IN  /\ c.op = "union" => accs[i] = before \cup f
                /\ c.op = "intersection" => accs[i] = before \cap f
                /\ c.op = "complement" => accs[i] = before \ f
                /\ c.op \in {"intersection", "complement"} => accs[i] \subseteq before

\* C24: for nested windows [a, b] inside [c, d], generate(a, b) is the part
\* of generate(c, d) that lies in [a, b].
C24_WindowIndependent ==
    (IsGenerate /\ Start <= End) =>
        \A c \in (Start - 2) .. Start, d \in End .. (End + 2) :
            set(ret) = {x \in set(GenerateList(clauses, shift_amount, c, d)) :
                            Start <= x /\ x <= End}

\* The field's hold window covers the last draw: a hold is configured, a
\* value had been sampled before, and less than hold seconds lie between
\* that sample and the draw.
InWindow ==
    /\ prob_field[1].hold # None
    /\ pf_out[1].found_val # None
    /\ pf_out[1].now - pf_out[1].found_t < prob_field[1].hold[1]

\* What draw returns when its base value is b and the jitter stream gave u.
Returned(b, u) ==
    LET f == prob_field[1]
        j == IF f.jitter # 0 THEN b + u ELSE b
    IN  IF f.clip = None THEN j
        ELSE IF j < f.clip[1][1] THEN f.clip[1][1]
        ELSE IF j > f.clip[1][2] THEN f.clip[1][2] ELSE j

\* C25: the first draw samples; a later draw reuses last_value exactly
\* when now - last_sample_time < h and samples afresh otherwise, at
\* now - last_sample_time = h too; a held draw leaves last_value and
\* last_sample_time as they were, a fresh one records its sample and its
\* time; with no hold every draw samples afresh.
C25_SampleAndHold ==
    pf_out # None =>
        LET f == prob_field[1]
            o == pf_out[1]
        IN  /\ InWindow =>
                  /\ f.last_val = o.found_val
                  /\ f.last_t = o.found_t
                  /\ o.val = Returned(o.found_val[1], o.u)
            /\ ~InWindow =>
                  /\ f.last_val = Some(o.sample)
                  /\ f.last_t = o.now
                  /\ o.val = Returned(o.sample, o.u)
            /\ (o.found_val = None \/ f.hold = None) => f.last_t = o.now

\* A fresh draw made exactly h after the last sample, a held draw having
\* come in between or not, with a sample other than the one held.
C25_Witness ==
    /\ pf_out # None
    /\ prob_field[1].hold # None
    /\ prob_field[1].jitter = 0
    /\ prob_field[1].clip = None
    /\ pf_out[1].found_val # None
    /\ pf_out[1].now - pf_out[1].found_t = prob_field[1].hold[1]
    /\ pf_out[1].sample # pf_out[1].found_val[1]
    /\ pf_out[1].val = pf_out[1].sample

\* A held draw inside the window: the held value comes back, not the sample.
C25_WitnessHeld ==
    /\ pf_out # None
    /\ InWindow
    /\ prob_field[1].jitter = 0
    /\ prob_field[1].clip = None
    /\ pf_out[1].now - pf_out[1].found_t = 1
    /\ pf_out[1].sample # pf_out[1].found_val[1]
    /\ pf_out[1].val = pf_out[1].found_val[1]

\* C26: with jitter j > 0 every draw, held or fresh, returns (before
\* clipping) its base plus a perturbation in [-j, +j]; the stored last_value
\* is the base, unperturbed and unclipped, so every value returned in a hold
\* window lies within j of the held base.
C26_JitterNeverAccumulates ==
    (pf_out # None /\ prob_field[1].jitter > 0) =>
        LET f == prob_field[1]
            o == pf_out[1]
            base == IF o.held THEN o.found_val[1] ELSE o.sample
        IN  /\ -f.jitter <= o.u /\ o.u <= f.jitter
            /\ f.last_val = Some(base)
            /\ f.clip = None =>
                  /\ o.val = base + o.u
                  /\ o.val - f.last_val[1] <= f.jitter
                  /\ f.last_val[1] - o.val <= f.jitter
            /\ f.clip # None => o.val = Returned(base, o.u)

\* A held draw pushed down by the whole jitter, from a base that an earlier
\* draw of the window had pushed up or left alone.
C26_Witness ==
    /\ pf_out # None
    /\ pf_out[1].held
    /\ prob_field[1].jitter = Scale
    /\ prob_field[1].clip = None
    /\ pf_out[1].u = -Scale
    /\ pf_out[1].val = pf_out[1].found_val[1] - Scale

\* The names of the calls of the last loop turn, in order.
StepNames == [i \in DOMAIN steps |-> steps[i][1]]

\* C27: in each loop turn the calls are next_time, time_provider,
\* sleeper(delay) exactly when delay = t - time_provider() > 0, the field
\* draws at t, sink.handle, the count increment; sleeper is called at most
\* once and with a positive delay, sink.handle exactly once per scheduled
\* time, and the event's t0 is the scheduled time, not the clock's reading.
C27_RunStepOrder ==
    /\ \A i \in DOMAIN slept : slept[i] > 0
    /\ (pc \in {"top", "returned", "raised"} /\ steps # <<>>) =>
          LET t == steps[1][2]
              clock == steps[2][2]
          IN  /\ StepNames \in
                    {<<"next_time", "time_provider", "draw_event",
                       "sink.handle", "n += 1">>,
                     <<"next_time", "time_provider", "sleeper", "draw_event",
                       "sink.handle", "n += 1">>}
              /\ ("sleeper" = StepNames[3]) <=> (t - clock > 0)
              /\ "sleeper" = StepNames[3] => steps[3][2] = t - clock
              /\ steps[Len(steps) - 2] = <<"draw_event", t>>
              /\ steps[Len(steps) - 1] = <<"sink.handle", t>>
              /\ steps[Len(steps)] = <<"n += 1", Len(sink)>>
              /\ sink[Len(sink)].t0 = t
              /\ \A name \in DOMAIN fields : fields[name].last_t = t

\* C28: with t_end given, every event handed to the sink has t0 < t_end.
C28_EventsBeforeEnd ==
    t_end # None => \A i \in DOMAIN sink : sink[i].t0 < t_end[1]

\* C29: the pitch of every event draw_event returns lies within pitch_span,
\* with and without quantisation, for every allowed_pitches list.
C29_PitchWithinSpan ==
    event # None =>
        (pitch_span[1] <= event[1].pitch /\ event[1].pitch <= pitch_span[2])

\* The sum of the first k weights of the call.
Cumulative(k) == SumOf(cat_weights, k)

\* C30: for non-negative weights with positive total and r in [0, total],
\* draw_categorical returns the first value whose cumulative weight reaches
\* r, and that value's weight is strictly positive.
C30_CategoricalPositiveWeight ==
    (cat_ret # None /\ Cumulative(Len(cat_weights)) > 0) =>
        \E k \in DOMAIN cat_values :
            /\ cat_ret[1] = cat_values[k]
            /\ cat_r[1] <= Cumulative(k)
            /\ \A i \in 1 .. (k - 1) : cat_r[1] > Cumulative(i)
            /\ cat_weights[k] > 0

====
